---- MODULE Spec2Model ----
(***************************************************************************)
(* Model of src/experiment_ec2/export_metrics.py: the export of Sock Shop  *)
(* metrics from a Prometheus-compatible backend into one wide CSV table.   *)
(*                                                                         *)
(* Floats are modelled as tagged records: a finite number (an integer      *)
(* here), NaN (the "missing" marker of pandas), +inf and -inf.  A raw JSON *)
(* sample value is a string or null.  A raw timestamp is a number of       *)
(* seconds with a fractional part in tenths.                               *)
(***************************************************************************)
EXTENDS Integers, Sequences, FiniteSets, TLC

VARIABLES
  pc,               \* position of the process, or of the function applied
  services,         \* main: the parsed --services list
  nodes,            \* main: the --nodes flag
  si,               \* main: position in the services (or worker instances) loop
  qi,               \* position in the query plan of the current entity
  df_all,           \* collect_for_service_simple / collect_for_node: df_all
  merged,           \* main: merged
  worker_instances, \* main: the discovered worker instances
  backend,          \* the backend's data: query (named by its column) -> result
  queries,          \* every query sent to the backend, in order
  failures,         \* every failed query: its name, its kind, its place in queries
  out_csv,          \* the output file
  exit_status,      \* the exit status of the process (-1 while it runs)
  payload,          \* SpecNorm: the raw response handed to _ts_matrix_to_series
  frames,           \* SpecNorm: the per-series frames built by lines 118-137
  series_df,        \* SpecNorm: the frame _ts_matrix_to_series returned
  cols_in,          \* SpecMerge: the columns to merge
  merged_ids,       \* SpecMerge: the columns merged so far, in merge order
  base              \* SpecMerge: the table folded so far

runVars == <<services, nodes, si, qi, df_all, merged, worker_instances, backend,
             queries, failures, out_csv, exit_status>>
normVars == <<payload, frames, series_df>>
mergeVars == <<cols_in, merged_ids, base>>
vars == <<pc, runVars, normVars, mergeVars>>

----------------------------------------------------------------------------
(* Floating-point values                                                   *)

Num(n) == [k |-> "num", n |-> n]
NaN    == [k |-> "nan", n |-> 0]
PosInf == [k |-> "inf", n |-> 0]
NegInf == [k |-> "-inf", n |-> 0]

IsNaN(v) == v.k = "nan"

\* IEEE-754 addition on the modelled values.
FAdd(a, b) ==
  IF IsNaN(a) \/ IsNaN(b) THEN NaN
  ELSE IF a.k = "num" /\ b.k = "num" THEN Num(a.n + b.n)
  ELSE IF a.k = "num" THEN b
  ELSE IF b.k = "num" THEN a
  ELSE IF a.k = b.k THEN a
  ELSE NaN

----------------------------------------------------------------------------
(* Raw JSON values and Python's float()                                    *)

RawStr(s) == [null |-> FALSE, s |-> s]
None      == [null |-> TRUE, s |-> ""]

\* Decimal literals float() accepts, with their value.
FloatLiterals == ("0" :> 0) @@ ("1" :> 1) @@ ("2" :> 2) @@ ("3" :> 3) @@ ("4" :> 4)
                 @@ ("5" :> 5) @@ ("6" :> 6)
\* Spellings float() accepts for the infinities and for not-a-number.
FloatPosInf == {"inf", "Inf", "INF", "+inf", "+Inf", "infinity", "Infinity", "+Infinity"}
FloatNegInf == {"-inf", "-Inf", "-INF", "-infinity", "-Infinity"}
FloatNaN    == {"nan", "NaN", "NAN", "+nan", "-nan", "+NaN", "-NaN"}

\* float(x) raises TypeError for None and ValueError for a string it cannot parse.
PyFloatRaises(x) ==
  x.null \/ x.s \notin (DOMAIN FloatLiterals \cup FloatPosInf \cup FloatNegInf \cup FloatNaN)

PyFloat(x) ==
  IF x.s \in DOMAIN FloatLiterals THEN Num(FloatLiterals[x.s])
  ELSE IF x.s \in FloatPosInf THEN PosInf
  ELSE IF x.s \in FloatNegInf THEN NegInf
  ELSE NaN

\* A raw timestamp sec.frac; int(float(t)) truncates it to the whole second.
RawTs(sec, frac) == [sec |-> sec, frac |-> frac]

\* round(float(t)) in the place of int(float(t)): half a second and more rounds up.
IntOfFloatRounded(t) == IF t.frac >= 5 THEN t.sec + 1 ELSE t.sec

IntOfFloat(t) == t.sec

----------------------------------------------------------------------------
(* Data frames: an ordered index of row keys, an ordered list of column    *)
(* names, and one cell per (column, row key).  Optional[DataFrame] is a    *)
(* frame with the field none set.                                          *)

DataFrame(index, columns, data) ==
  [none |-> FALSE, index |-> index, columns |-> columns, data |-> data]
NoneDF == [none |-> TRUE, index |-> <<>>, columns |-> <<>>, data |-> <<>>]

SeqToSet(s) == {s[i] : i \in DOMAIN s}

RECURSIVE SortSet(_)
\* The elements of a finite set of integers in ascending order.
SortSet(S) ==
  IF S = {} THEN <<>>
  ELSE LET m == CHOOSE x \in S : \A y \in S : x <= y
       IN <<m>> \o SortSet(S \ {m})

\* EmptyFrame without set_index("time"): "time" stays a column.
EmptyFrameNoSetIndex(target_col) ==
  DataFrame(<<>>, <<"time", target_col>>, ("time" :> <<>>) @@ (target_col :> <<>>))

\* pd.DataFrame(columns=["time", target_col]).set_index("time")
EmptyFrame(target_col) ==
  DataFrame(<<>>, <<target_col>>, (target_col :> <<>>))

RECURSIVE ConcatFrames(_)
\* pd.concat(frames, axis=0): the rows of the frames one after the other.
ConcatFrames(fs) ==
  IF fs = <<>> THEN <<>> ELSE Head(fs) \o ConcatFrames(Tail(fs))

RECURSIVE GroupSumNoMinCount(_, _, _, _)
\* GroupSum as sum() without min_count=1: a group of NaN only sums to 0.
GroupSumNoMinCount(rows, t, acc, cnt) ==
  IF rows = <<>> THEN IF cnt >= 1 THEN acc ELSE Num(0)
  ELSE LET r == Head(rows)
       IN IF r.time = t /\ ~IsNaN(r.v)
          THEN GroupSumNoMinCount(Tail(rows), t,
                                  IF cnt = 0 THEN r.v ELSE FAdd(acc, r.v), cnt + 1)
          ELSE GroupSumNoMinCount(Tail(rows), t, acc, cnt)

RECURSIVE GroupSum(_, _, _, _)
\* One group of groupby(level=0).sum(min_count=1): the sum of the non-NaN values of
\* the rows with key t, and how many of them there are.
GroupSum(rows, t, acc, cnt) ==
  IF rows = <<>> THEN IF cnt >= 1 THEN acc ELSE NaN
  ELSE LET r == Head(rows)
       IN IF r.time = t /\ ~IsNaN(r.v)
          THEN GroupSum(Tail(rows), t, IF cnt = 0 THEN r.v ELSE FAdd(acc, r.v), cnt + 1)
          ELSE GroupSum(Tail(rows), t, acc, cnt)

\* Lines 129-135: the float of one raw value.
ConvertValue(x) ==
  IF x \in {RawStr("NaN"), RawStr("Inf"), RawStr("-Inf"), None} THEN NaN
  ELSE IF PyFloatRaises(x) THEN NaN
  ELSE PyFloat(x)

\* Lines 124-137: the frame of one series (rows of time and value).
SeriesFrame(vals) ==
  [i \in 1..Len(vals) |-> [time |-> IntOfFloat(vals[i].t), v |-> ConvertValue(vals[i].x)]]

RECURSIVE SeriesFrames(_)
\* Lines 118-137: one frame per series that has values.
SeriesFrames(res) ==
  IF res = <<>> THEN <<>>
  ELSE IF Head(res) = <<>> THEN SeriesFrames(Tail(res))
  ELSE <<SeriesFrame(Head(res))>> \o SeriesFrames(Tail(res))

\* Lines 142-145: concat, group by epoch second (sorted keys), sum.
GroupBySum(fs, target_col) ==
  LET rows == ConcatFrames(fs)
      keys == {rows[i].time : i \in DOMAIN rows}
  IN DataFrame(SortSet(keys), <<target_col>>,
               (target_col :> [t \in keys |-> GroupSum(rows, t, NaN, 0)]))

_ts_matrix_to_series(res, target_col) ==
  IF res = <<>> THEN EmptyFrame(target_col)
  ELSE IF SeriesFrames(res) = <<>> THEN EmptyFrame(target_col)
  ELSE GroupBySum(SeriesFrames(res), target_col)

----------------------------------------------------------------------------
(* _merge_into: base.join(newdf, how="outer")                              *)

\* DataFrame.join raises ValueError when the two frames share a column name.
JoinRaises(left, right) ==
  SeqToSet(left.columns) \cap SeqToSet(right.columns) # {}

\* One column of a join: the column's own cell where its frame has the row key,
\* NaN elsewhere.
JoinedData(left, right, keys) ==
  [c \in SeqToSet(left.columns) \cup SeqToSet(right.columns) |->
     LET own == IF c \in SeqToSet(left.columns) THEN left ELSE right
     IN [t \in keys |-> IF t \in SeqToSet(own.index) THEN own.data[c][t] ELSE NaN]]

\* join(how="left"): only the row keys of the left frame.
LeftJoin(left, right) ==
  DataFrame(left.index, left.columns \o right.columns,
            JoinedData(left, right, SeqToSet(left.index)))

\* An outer join that does not sort: the left row keys, then the right's new ones.
OuterJoinUnsorted(left, right) ==
  DataFrame(left.index \o SelectSeq(right.index, LAMBDA k : k \notin SeqToSet(left.index)),
            left.columns \o right.columns,
            JoinedData(left, right, SeqToSet(left.index) \cup SeqToSet(right.index)))

\* join(how="outer"): the sorted union of the row keys (both indexes are unique).
OuterJoin(left, right) ==
  LET keys == SeqToSet(left.index) \cup SeqToSet(right.index)
  IN DataFrame(SortSet(keys), left.columns \o right.columns,
               JoinedData(left, right, keys))

MergeRaises(b, newdf) == ~b.none /\ JoinRaises(b, newdf)

_merge_into(b, newdf) ==
  IF b.none THEN newdf ELSE OuterJoin(b, newdf)

----------------------------------------------------------------------------
(* The schema and the membership sets                                      *)

SIMPLE_COLS_ORDER ==
  <<"time",
    "carts_cpu", "carts-db_cpu", "catalogue_cpu", "catalogue-db_cpu", "front-end_cpu",
    "orders_cpu", "orders-db_cpu", "payment_cpu", "queue-master_cpu", "rabbitmq_cpu",
    "session-db_cpu", "shipping_cpu", "user_cpu", "user-db_cpu",
    "carts_mem", "carts-db_mem", "catalogue_mem", "catalogue-db_mem", "front-end_mem",
    "orders_mem", "orders-db_mem", "payment_mem", "queue-master_mem", "rabbitmq_mem",
    "session-db_mem", "shipping_mem", "user_mem", "user-db_mem",
    "carts_workload", "catalogue_workload", "front-end_workload", "orders_workload",
    "payment_workload", "queue-master_workload", "shipping_workload", "user_workload",
    "carts_error", "front-end_error", "orders_error", "queue-master_error",
    "shipping_error",
    "carts_latency-50", "catalogue_latency-50", "front-end_latency-50",
    "orders_latency-50", "payment_latency-50", "shipping_latency-50", "user_latency-50",
    "carts_latency-90", "catalogue_latency-90", "front-end_latency-90",
    "orders_latency-90", "payment_latency-90", "shipping_latency-90", "user_latency-90">>

WORKLOAD_SERVICES ==
  {"carts", "catalogue", "front-end", "orders", "payment", "queue-master", "shipping",
   "user"}
ERROR_SERVICES == {"carts", "front-end", "orders", "queue-master", "shipping"}
LAT_SERVICES == {"carts", "catalogue", "front-end", "orders", "payment", "shipping", "user"}

----------------------------------------------------------------------------
(* The backend's answers and the two query clients                         *)

Response(transport_ok, status_code, status, result) ==
  [transport_ok |-> transport_ok, status_code |-> status_code, status |-> status,
   result |-> result]

\* A query fails when the backend is unreachable, answers with an HTTP error, or
\* reports a status other than "success".
QueryFailed(resp) ==
  ~resp.transport_ok \/ resp.status_code # 200 \/ resp.status # "success"

Raised == [raised |-> TRUE, data |-> <<>>]
Returned(data) == [raised |-> FALSE, data |-> data]

\* prom_range without raise_for_status and without the status check.
prom_range_unchecked(resp) ==
  IF ~resp.transport_ok THEN Raised ELSE Returned(resp.result)

\* Lines 103-111: requests.get raises on a transport failure, raise_for_status on
\* a status code of 400 and above, the status check on anything but "success".
prom_range(resp) ==
  IF ~resp.transport_ok THEN Raised
  ELSE IF resp.status_code >= 400 THEN Raised
  ELSE IF resp.status # "success" THEN Raised
  ELSE Returned(resp.result)

\* Lines 66-74.
prom_instant(resp) ==
  IF ~resp.transport_ok THEN Raised
  ELSE IF resp.status_code # 200 \/ resp.status # "success" THEN Raised
  ELSE Returned(resp.result)

\* Lines 82 and 88: the instance label of every result that has one.
InstancesOf(res) ==
  LET with == SelectSeq(res, LAMBDA m : m.has_instance)
  IN [i \in 1..Len(with) |-> with[i].instance]

----------------------------------------------------------------------------
(* The query plans                                                         *)

\* collect_for_service_simple with the queue-master exceptions of lines 307 and 316
\* dropped: an error-rate query for every service of ERROR_SERVICES.
ServicePlanNoException(svc) ==
  <<"cpu", "mem">>
  \o (IF svc \in WORKLOAD_SERVICES THEN <<"workload">> ELSE <<>>)
  \o (IF svc \in ERROR_SERVICES THEN <<"error">> ELSE <<>>)
  \o (IF svc \in LAT_SERVICES THEN <<"latency-50", "latency-90">> ELSE <<>>)

\* Lines 282-324: the metric kinds collect_for_service_simple queries for svc, in
\* order.
ServicePlan(svc) ==
  <<"cpu", "mem">>
  \o (IF svc \in WORKLOAD_SERVICES THEN <<"workload">> ELSE <<>>)
  \o (IF svc \in ERROR_SERVICES
      THEN (IF svc = "queue-master" THEN <<>> ELSE <<"error">>)
      ELSE <<>>)
  \o (IF svc \in LAT_SERVICES
      THEN (IF svc = "queue-master" THEN <<>> ELSE <<"latency-50", "latency-90">>)
      ELSE <<>>)

ServiceCol(svc, kind) == svc \o "_" \o kind

\* Lines 230-244.
NodePlan == <<"cpu-usage", "mem-available-bytes", "net-rx-errors", "net-tx-errors">>

NodeCol(instance, kind) == "node_" \o instance \o "_" \o kind

\* Line 290: payload["data"]["result"][0]["values"][-1][0] raises IndexError when
\* there is no series or the first series has no values.
MemPrintRaises(res) == res = <<>> \/ Head(res) = <<>>

----------------------------------------------------------------------------
(* Values of the variables a specification does not use                    *)

NoFile == [written |-> FALSE, header |-> <<>>, rows |-> <<>>]

RunIdle ==
  /\ services = <<>>
  /\ nodes = FALSE
  /\ si = 1
  /\ qi = 1
  /\ df_all = NoneDF
  /\ merged = NoneDF
  /\ worker_instances = <<>>
  /\ backend = <<>>
  /\ queries = <<>>
  /\ failures = <<>>
  /\ out_csv = NoFile
  /\ exit_status = -1

NormIdle ==
  /\ payload = <<>>
  /\ frames = <<>>
  /\ series_df = NoneDF

MergeIdle ==
  /\ cols_in = <<>>
  /\ merged_ids = <<>>
  /\ base = NoneDF

----------------------------------------------------------------------------
(* SpecNorm: _ts_matrix_to_series applied to every response of a bounded   *)
(* set.  A series holds at most one sample per time of the query grid, in  *)
(* ascending order, as the backend returns them.                           *)

MaxSeries == 2

TargetCol == "carts_cpu"

\* The raw times of the query grid, ascending.
GridTimes == <<RawTs(1, 0), RawTs(2, 0)>>

\* Raw sample values: decimal numbers, the backend's markers for not-a-number and
\* the infinities (Go prints "NaN", "+Inf", "-Inf"), the "Inf" the source names,
\* null, and a string float() cannot parse.
RawValues ==
  {RawStr("1"), RawStr("2"), RawStr("NaN"), RawStr("Inf"), RawStr("+Inf"),
   RawStr("-Inf"), RawStr("abc"), None}

Sample(t, x) == [t |-> t, x |-> x]

RECURSIVE SeriesFrom(_)
\* Every series over the grid times from position g on.
SeriesFrom(g) ==
  IF g > Len(GridTimes) THEN {<<>>}
  ELSE LET rest == SeriesFrom(g + 1)
       IN rest \cup {<<Sample(GridTimes[g], x)>> \o r : x \in RawValues, r \in rest}

AllSeries == SeriesFrom(1)

\* Every response of n series.
PayloadsOfLen(n) == [1..n -> AllSeries]

InitNorm ==
  /\ pc = "start"
  /\ \E n \in 0..MaxSeries : payload \in PayloadsOfLen(n)
  /\ frames = <<>>
  /\ series_df = NoneDF
  /\ RunIdle
  /\ MergeIdle

\* One call of _ts_matrix_to_series(payload, TargetCol).
Normalize ==
  /\ pc = "start"
  /\ frames' = SeriesFrames(payload)
  /\ series_df' = _ts_matrix_to_series(payload, TargetCol)
  /\ pc' = "done"
  /\ UNCHANGED <<payload, runVars, mergeVars>>

NextNorm == Normalize

SpecNorm == InitNorm /\ [][NextNorm]_vars

----------------------------------------------------------------------------
(* Claims about _ts_matrix_to_series, checked under SpecNorm               *)

\* The samples of the response, as <<series, position>>.
SamplePositions ==
  {p \in (DOMAIN payload) \X (1..Len(GridTimes)) : p[2] <= Len(payload[p[1]])}

\* The samples that fall on epoch second T, and those of them with a number.
Contribs(T) == {p \in SamplePositions : IntOfFloat(payload[p[1]][p[2]].t) = T}
ContribValue(p) == ConvertValue(payload[p[1]][p[2]].x)
NumericContribs(T) == {p \in Contribs(T) : ~IsNaN(ContribValue(p))}

EpochSeconds == {IntOfFloat(GridTimes[g]) : g \in DOMAIN GridTimes}

RECURSIVE SumOfContribs(_)
SumOfContribs(S) ==
  IF S = {} THEN Num(0)
  ELSE LET p == CHOOSE q \in S : TRUE
       IN IF S = {p} THEN ContribValue(p) ELSE FAdd(ContribValue(p), SumOfContribs(S \ {p}))

\* C5: at every epoch second T with contributions, the normalized value is the sum of
\* the non-missing contributions at T, and it is missing exactly when every
\* contribution at T is missing.
C5_SumSkipsMissing ==
  pc = "done" =>
    \A T \in EpochSeconds :
      Contribs(T) # {} =>
        /\ T \in SeqToSet(series_df.index)
        /\ series_df.data[TargetCol][T] =
             (IF NumericContribs(T) = {} THEN NaN ELSE SumOfContribs(NumericContribs(T)))
        /\ IsNaN(series_df.data[TargetCol][T]) <=> (NumericContribs(T) = {})

\* C5 witness: a number and a missing value met at one epoch second and gave the number.
C5_Witness ==
  /\ pc = "done"
  /\ \E T \in EpochSeconds :
       /\ Cardinality(NumericContribs(T)) = 1
       /\ Cardinality(Contribs(T)) = 2
       /\ series_df.data[TargetCol][T] = Num(2)

\* The series of the response that have values, in order (one frame each).
SeriesWithValues == SelectSeq(payload, LAMBDA s : s # <<>>)

\* A raw value that is no decimal number: null, a NaN or infinity marker, or a
\* string that does not parse.
NonNumericRaw(x) == x.null \/ x.s \notin DOMAIN FloatLiterals

\* C6: every sample whose raw value is a non-numeric sentinel is stored as the
\* missing marker (never a number, finite or infinite).
C6_SentinelsBecomeMissing ==
  pc = "done" =>
    \A i \in DOMAIN frames : \A j \in DOMAIN frames[i] :
      NonNumericRaw(SeriesWithValues[i][j].x) => IsNaN(frames[i][j].v)

\* C8: a response with zero series, or whose series all have empty value lists,
\* gives a frame with the one column target_col and an empty index, and the call
\* always completes.
C8_EmptyResponseEmptyColumn ==
  /\ (pc = "start" /\ \A i \in DOMAIN payload : payload[i] = <<>>) => ENABLED Normalize
  /\ (pc = "done" /\ \A i \in DOMAIN payload : payload[i] = <<>>) =>
       /\ ~series_df.none
       /\ series_df.columns = <<TargetCol>>
       /\ series_df.index = <<>>

\* C8 witness: a response of series without values was normalized.
C8_Witness ==
  /\ pc = "done"
  /\ Len(payload) >= 1
  /\ \A i \in DOMAIN payload : payload[i] = <<>>
  /\ series_df.index = <<>>

----------------------------------------------------------------------------
(* main, lines 359-384: the empty check, the zero fill, the schema         *)

ErrorCols == {ServiceCol(svc, "error") : svc \in ERROR_SERVICES}

\* Lines 364-367: fillna(0.0) on every <svc>_error column the frame has.
FillnaErrors(df) ==
  DataFrame(df.index, df.columns,
            [c \in DOMAIN df.data |->
               IF c \in ErrorCols
               THEN [t \in DOMAIN df.data[c] |->
                       IF IsNaN(df.data[c][t]) THEN Num(0) ELSE df.data[c][t]]
               ELSE df.data[c]])

\* Lines 374-379: every schema column the frame lacks, appended and filled with NaN.
InjectMissing(df) ==
  LET absent == SelectSeq(SIMPLE_COLS_ORDER,
                          LAMBDA c : c # "time" /\ c \notin SeqToSet(df.columns))
  IN DataFrame(df.index, df.columns \o absent,
               [c \in SeqToSet(df.columns) \cup SeqToSet(absent) |->
                  IF c \in SeqToSet(df.columns) THEN df.data[c]
                  ELSE [t \in SeqToSet(df.index) |-> NaN]])

\* Line 381: reset_index turns the index into the first column, "time".
ResetIndex(df) ==
  [columns |-> <<"time">> \o df.columns,
   rows |-> [i \in 1..Len(df.index) |->
               [c \in {"time"} \cup SeqToSet(df.columns) |->
                  IF c = "time" THEN Num(df.index[i]) ELSE df.data[c][df.index[i]]]]]

\* The frame written as it is, without the projection of line 382.
ProjectNothing(t, cols) == t

\* Line 382: out_df[SIMPLE_COLS_ORDER].
ProjectColumns(t, cols) ==
  [columns |-> cols,
   rows |-> [i \in 1..Len(t.rows) |-> [c \in SeqToSet(cols) |-> t.rows[i][c]]]]

\* Lines 364-382 with the zero fill after the injection of the absent columns.
OutputTableFillLast(df) ==
  ProjectColumns(ResetIndex(FillnaErrors(InjectMissing(df))), SIMPLE_COLS_ORDER)

\* Lines 364-382: zero fill, injection of the absent columns, projection.
OutputTable(df) ==
  ProjectColumns(ResetIndex(InjectMissing(FillnaErrors(df))), SIMPLE_COLS_ORDER)

\* Line 383: to_csv(index=False).
CsvFile(t) == [written |-> TRUE, header |-> t.columns, rows |-> t.rows]

----------------------------------------------------------------------------
(* Spec: one run of main                                                   *)

MaxServices == 1

\* A service with every metric kind, the service with the structurally missing
\* kinds, and a service the schema does not know (cpu and mem only).
ServiceNames == {"carts", "queue-master", "foo"}

RECURSIVE ServiceLists(_)
ServiceLists(n) ==
  IF n = 0 THEN {<<>>}
  ELSE ServiceLists(n - 1)
       \cup {Append(l, svc) : l \in {x \in ServiceLists(n - 1) : Len(x) = n - 1},
                              svc \in ServiceNames}

\* The results the backend holds: none, one series with a missing sample, and two
\* series on another set of timestamps whose samples meet at one epoch second, the
\* second with its samples in descending order of time.
RunPayloads ==
  { <<>>,
    << <<Sample(RawTs(1, 0), RawStr("1")), Sample(RawTs(2, 0), RawStr("NaN")),
         Sample(RawTs(3, 0), RawStr("2"))>> >>,
    << <<Sample(RawTs(1, 0), RawStr("5"))>>,
       <<Sample(RawTs(3, 0), RawStr("6")), Sample(RawTs(1, 0), RawStr("1"))>> >> }

\* What node discovery can get back: nothing, a node, a result without the label.
InstantResults ==
  { <<>>,
    <<[has_instance |-> TRUE, instance |-> "n1"]>>,
    <<[has_instance |-> FALSE, instance |-> ""]>> }

FailedResponses ==
  { Response(FALSE, 0, "", <<>>),
    Response(TRUE, 500, "error", <<>>),
    Response(TRUE, 200, "error", <<>>) }

\* The answers to the range query named q: a failure, or the data the backend holds
\* for q (the same at every asking: the window is fixed).
RangeResponses(q) ==
  FailedResponses
  \cup {Response(TRUE, 200, "success", r) :
          r \in IF q \in DOMAIN backend THEN {backend[q]} ELSE RunPayloads}

InstantResponses ==
  FailedResponses \cup {Response(TRUE, 200, "success", r) : r \in InstantResults}

Asked(q, resp) ==
  /\ queries' = Append(queries, q)
  /\ backend' = IF QueryFailed(resp) \/ q \in DOMAIN backend THEN backend
                ELSE backend @@ (q :> resp.result)

Failure(q, kind) == [query |-> q, kind |-> kind, at |-> Len(queries) + 1]

\* An uncaught exception: traceback and exit status 1.
Abort ==
  /\ pc' = "failed"
  /\ exit_status' = 1
  /\ UNCHANGED <<si, qi, df_all, merged, worker_instances, out_csv>>

AfterServices == IF nodes THEN "discover" ELSE "finish"

Init ==
  /\ pc = "main"
  /\ services \in ServiceLists(MaxServices)
  \* --nodes is modelled for the runs over at most one service
  /\ nodes \in (IF Len(services) <= 1 THEN BOOLEAN ELSE {FALSE})
  /\ si = 1
  /\ qi = 1
  /\ df_all = NoneDF
  /\ merged = NoneDF
  /\ worker_instances = <<>>
  /\ backend = <<>>
  /\ queries = <<>>
  /\ failures = <<>>
  /\ out_csv = NoFile
  /\ exit_status = -1
  /\ NormIdle
  /\ MergeIdle

\* Lines 329-336: the arguments are parsed; the services loop starts.
Start ==
  /\ pc = "main"
  /\ pc' = IF services = <<>> THEN AfterServices ELSE "services"
  /\ UNCHANGED <<runVars, normVars, mergeVars>>

\* Lines 279-326 and 336-342: one range query of collect_for_service_simple, its
\* result normalized and merged into df_all; after the last query of the plan
\* df_all is returned and merged into merged.
ServiceQuery ==
  /\ pc = "services"
  /\ LET svc == services[si]
         plan == ServicePlan(svc)
         kind == plan[qi]
         col == ServiceCol(svc, kind)
     IN \E resp \in RangeResponses(col) :
          LET r == prom_range(resp)
              newdf == _ts_matrix_to_series(r.data, col)
              svc_df == _merge_into(df_all, newdf)
          IN /\ Asked(col, resp)
             /\ failures' = IF QueryFailed(resp)
                            THEN Append(failures, Failure(col, "range")) ELSE failures
             /\ IF r.raised THEN Abort
                ELSE IF kind = "mem" /\ MemPrintRaises(r.data) THEN Abort
                ELSE IF MergeRaises(df_all, newdf) THEN Abort
                ELSE IF qi < Len(plan)
                THEN /\ df_all' = svc_df
                     /\ qi' = qi + 1
                     /\ UNCHANGED <<pc, si, merged, worker_instances, out_csv,
                                    exit_status>>
                ELSE IF MergeRaises(merged, svc_df) THEN Abort
                ELSE /\ merged' = _merge_into(merged, svc_df)
                     /\ df_all' = NoneDF
                     /\ qi' = 1
                     /\ si' = IF si < Len(services) THEN si + 1 ELSE 1
                     /\ pc' = IF si < Len(services) THEN "services" ELSE AfterServices
                     /\ UNCHANGED <<worker_instances, out_csv, exit_status>>
  /\ UNCHANGED <<services, nodes, normVars, mergeVars>>

\* The worker instances are known: the nodes loop starts, or the warning of line 350.
Discovered(instances) ==
  /\ worker_instances' = instances
  /\ pc' = IF instances = <<>> THEN "finish" ELSE "nodes"
  /\ UNCHANGED <<si, qi, df_all, merged, out_csv, exit_status>>

\* Lines 77-84: the node_uname_info query; any exception is swallowed, and an empty
\* result or an exception leads to the second query.
Discover ==
  /\ pc = "discover"
  /\ \E resp \in InstantResponses :
       LET r == prom_instant(resp)
       IN /\ Asked("node_uname_info", resp)
          /\ failures' = IF QueryFailed(resp)
                         THEN Append(failures, Failure("node_uname_info", "discover"))
                         ELSE failures
          /\ IF r.raised \/ r.data = <<>>
             THEN /\ pc' = "discover_fallback"
                  /\ UNCHANGED <<si, qi, df_all, merged, worker_instances, out_csv,
                                 exit_status>>
             ELSE Discovered(InstancesOf(r.data))
  /\ UNCHANGED <<services, nodes, normVars, mergeVars>>

\* Lines 86-88: the node_cpu_seconds_total query, outside the try.
DiscoverFallback ==
  /\ pc = "discover_fallback"
  /\ \E resp \in InstantResponses :
       LET r == prom_instant(resp)
       IN /\ Asked("node_cpu_seconds_total", resp)
          /\ failures' = IF QueryFailed(resp)
                         THEN Append(failures, Failure("node_cpu_seconds_total", "fallback"))
                         ELSE failures
          /\ IF r.raised THEN Abort ELSE Discovered(InstancesOf(r.data))
  /\ UNCHANGED <<services, nodes, normVars, mergeVars>>

\* Lines 227-246 and 352-357: one range query of collect_for_node; after the
\* fourth, df_all is returned and merged into merged.
NodeQuery ==
  /\ pc = "nodes"
  /\ LET inst == worker_instances[si]
         col == NodeCol(inst, NodePlan[qi])
     IN \E resp \in RangeResponses(col) :
          LET r == prom_range(resp)
              newdf == _ts_matrix_to_series(r.data, col)
              node_df == _merge_into(df_all, newdf)
          IN /\ Asked(col, resp)
             /\ failures' = IF QueryFailed(resp)
                            THEN Append(failures, Failure(col, "range")) ELSE failures
             /\ IF r.raised THEN Abort
                ELSE IF MergeRaises(df_all, newdf) THEN Abort
                ELSE IF qi < Len(NodePlan)
                THEN /\ df_all' = node_df
                     /\ qi' = qi + 1
                     /\ UNCHANGED <<pc, si, merged, worker_instances, out_csv,
                                    exit_status>>
                ELSE IF MergeRaises(merged, node_df) THEN Abort
                ELSE /\ merged' = _merge_into(merged, node_df)
                     /\ df_all' = NoneDF
                     /\ qi' = 1
                     /\ si' = IF si < Len(worker_instances) THEN si + 1 ELSE 1
                     /\ pc' = IF si < Len(worker_instances) THEN "nodes" ELSE "finish"
                     /\ UNCHANGED <<worker_instances, out_csv, exit_status>>
  /\ UNCHANGED <<services, nodes, normVars, mergeVars>>

\* Lines 359-361: merged.empty is true when the frame has no rows.
IsEmpty(df) == df.index = <<>> \/ df.columns = <<>>

\* Lines 359-384: nothing to write and exit status 2, or the table is written.
Finish ==
  /\ pc = "finish"
  /\ IF merged.none \/ IsEmpty(merged)
     THEN /\ pc' = "no_data"
          /\ exit_status' = 2
          /\ UNCHANGED out_csv
     ELSE /\ pc' = "written"
          /\ exit_status' = 0
          /\ out_csv' = CsvFile(OutputTable(merged))
  /\ UNCHANGED <<services, nodes, si, qi, df_all, merged, worker_instances, backend,
                 queries, failures, normVars, mergeVars>>

Next ==
  \/ Start
  \/ ServiceQuery
  \/ Discover
  \/ DiscoverFallback
  \/ NodeQuery
  \/ Finish

Spec == Init /\ [][Next]_vars

----------------------------------------------------------------------------
(* Claims about a run of main, checked under Spec                          *)

SchemaCols == SeqToSet(SIMPLE_COLS_ORDER)

\* The epoch seconds of the samples the backend holds for the query named q.
OwnKeys(q) ==
  IF q \notin DOMAIN backend THEN {}
  ELSE UNION {{IntOfFloat(backend[q][i][j].t) : j \in DOMAIN backend[q][i]} :
                i \in DOMAIN backend[q]}

\* C1: the written table's columns are SIMPLE_COLS_ORDER exactly, "time" first,
\* whatever was computed.
C1_OutputHasExactSchema ==
  out_csv.written =>
    /\ out_csv.header = SIMPLE_COLS_ORDER
    /\ out_csv.header[1] = "time"
    /\ \A i \in DOMAIN out_csv.rows : DOMAIN out_csv.rows[i] = SchemaCols

\* C1 witness: a table was written from a frame with a column outside the schema
\* and without some column of the schema.
C1_Witness ==
  /\ out_csv.written
  /\ \E c \in SeqToSet(merged.columns) : c \notin SchemaCols
  /\ \E c \in SchemaCols \ {"time"} : c \notin SeqToSet(merged.columns)
  /\ out_csv.rows # <<>>

\* C2 as stated: a zeroable schema column that was never computed holds 0.0 in every
\* row of the written table.
C2_AbsentZeroableIsZero ==
  out_csv.written =>
    \A c \in ErrorCols \cap SchemaCols :
      c \notin SeqToSet(merged.columns) =>
        \A i \in DOMAIN out_csv.rows : out_csv.rows[i][c] = Num(0)

\* C2 amended: a zeroable schema column that was never computed holds the missing
\* marker in every row; a zeroable column that was computed holds its own value, or
\* 0.0 where that is missing.
C2_ZeroFillBeforeInjection ==
  out_csv.written =>
    \A c \in ErrorCols \cap SchemaCols : \A i \in DOMAIN out_csv.rows :
      LET t == out_csv.rows[i]["time"].n
      IN IF c \notin SeqToSet(merged.columns)
         THEN IsNaN(out_csv.rows[i][c])
         ELSE out_csv.rows[i][c] =
                (IF IsNaN(merged.data[c][t]) THEN Num(0) ELSE merged.data[c][t])

\* C2 witness: a written table with a computed error column that had a missing cell
\* and an error column that was never computed.
C2_Witness ==
  /\ out_csv.written
  /\ "carts_error" \in SeqToSet(merged.columns)
  /\ \E t \in SeqToSet(merged.index) : IsNaN(merged.data["carts_error"][t])
  /\ "queue-master_error" \notin SeqToSet(merged.columns)
  /\ out_csv.rows # <<>>

\* C3 as stated: after any failed query no further query is sent and nothing is
\* written.
C3_AnyFailureAborts ==
  \A k \in DOMAIN failures :
    /\ Len(queries) = failures[k].at
    /\ ~out_csv.written

\* C3 amended: a failed range query and a failed second discovery query abort the
\* run (exit status 1, no further query, no file); a failed first discovery query is
\* swallowed and the second discovery query is the next one sent.
C3_FailureAbortsButDiscovery ==
  \A k \in DOMAIN failures :
    IF failures[k].kind = "discover"
    THEN /\ pc # "discover"
         /\ Len(queries) > failures[k].at =>
              queries[failures[k].at + 1] = "node_cpu_seconds_total"
    ELSE /\ pc = "failed"
         /\ exit_status = 1
         /\ Len(queries) = failures[k].at
         /\ ~out_csv.written

\* C3 witness: a range query failed after other queries had succeeded.
C3_Witness ==
  /\ failures # <<>>
  /\ failures[1].kind = "range"
  /\ failures[1].at >= 3
  /\ pc = "failed"

RunEnded == pc \in {"failed", "no_data", "written"}

\* C7: a run in which no query failed and every query returned zero series ends
\* with exit status 2 and no file.
C7_NoDataExitsTwo ==
  (RunEnded /\ failures = <<>> /\ \A q \in DOMAIN backend : backend[q] = <<>>) =>
    /\ pc = "no_data"
    /\ exit_status = 2
    /\ ~out_csv.written

\* The union of the own epoch seconds of the columns of a frame.
KeysOfColumns(df) == UNION {OwnKeys(c) : c \in SeqToSet(df.columns)}

\* C9: the row keys of df_all, of merged and of the written table are exactly the
\* union of the epoch seconds of their columns' own series, and in the written table
\* a cell of a non-zeroable column at a row key its own series lacks is missing.
C9_RowsAreUnionCellsMissing ==
  /\ ~df_all.none => SeqToSet(df_all.index) = KeysOfColumns(df_all)
  /\ ~merged.none => SeqToSet(merged.index) = KeysOfColumns(merged)
  /\ out_csv.written =>
       /\ {out_csv.rows[i]["time"].n : i \in DOMAIN out_csv.rows} = KeysOfColumns(merged)
       /\ Len(out_csv.rows) = Cardinality(KeysOfColumns(merged))
       /\ \A i \in DOMAIN out_csv.rows : \A c \in SchemaCols \ ({"time"} \cup ErrorCols) :
            out_csv.rows[i]["time"].n \notin OwnKeys(c) => IsNaN(out_csv.rows[i][c])

\* C9 witness: a written row at an epoch second that a computed, non-zeroable
\* column's own series lacks.
C9_Witness ==
  /\ out_csv.written
  /\ \E i \in DOMAIN out_csv.rows :
       /\ out_csv.rows[i]["time"].n \notin OwnKeys("carts_cpu")
       /\ OwnKeys("carts_cpu") # {}
       /\ IsNaN(out_csv.rows[i]["carts_cpu"])

\* The queue-master columns of the structurally unavailable metric kinds.
UnavailableCols ==
  {ServiceCol("queue-master", k) : k \in {"error", "latency-50", "latency-90"}}

UnsortedSeries(vals) ==
  \E i \in DOMAIN vals : \E j \in DOMAIN vals : i < j /\ vals[i].t.sec > vals[j].t.sec

\* C12: the rows of every written table are strictly ascending by "time": sorted
\* ascending with each epoch second in at most one row, whatever the order in which
\* the columns were merged and the order of the samples in the backend's series.
C12_RowsStrictlyAscending ==
  out_csv.written =>
    \A i \in DOMAIN out_csv.rows : \A j \in DOMAIN out_csv.rows :
      i < j => out_csv.rows[i]["time"].n < out_csv.rows[j]["time"].n

\* C12 witness: a written table of three rows whose first column came from a series
\* in descending order of time and lacks epoch second 2, which a column merged
\* later brought in.
C12_Witness ==
  /\ out_csv.written
  /\ Len(out_csv.rows) = 3
  /\ "carts_cpu" \in DOMAIN backend
  /\ \E i \in DOMAIN backend["carts_cpu"] : UnsortedSeries(backend["carts_cpu"][i])
  /\ OwnKeys("carts_cpu") = {1, 3}
  /\ merged.columns[1] = "carts_cpu"
  /\ \E c \in SeqToSet(merged.columns) : 2 \in OwnKeys(c)

----------------------------------------------------------------------------
(* SpecMerge: a fixed set of columns folded with _merge_into in every      *)
(* order                                                                   *)

MaxCols == 3

MergeColNames == <<"carts_cpu", "carts_mem", "carts_workload", "carts_error">>

\* The responses the columns are normalized from: one series over the grid, each
\* sample a number or missing.
MergeSeries ==
  {s \in AllSeries : \A j \in DOMAIN s : s[j].x \in {RawStr("1"), RawStr("NaN")}}

InitMerge ==
  /\ pc = "merge"
  /\ \E ps \in [1..MaxCols -> MergeSeries] :
       cols_in = [k \in 1..MaxCols |-> _ts_matrix_to_series(<<ps[k]>>, MergeColNames[k])]
  /\ merged_ids = <<>>
  /\ base = NoneDF
  /\ RunIdle
  /\ NormIdle

\* df_all = _merge_into(df_all, column k), for any column not merged yet.
MergeStep ==
  /\ pc = "merge"
  /\ \E k \in (1..MaxCols) \ SeqToSet(merged_ids) :
       /\ ~MergeRaises(base, cols_in[k])
       /\ base' = _merge_into(base, cols_in[k])
       /\ merged_ids' = Append(merged_ids, k)
       /\ pc' = IF Len(merged_ids) + 1 = MaxCols THEN "merged" ELSE "merge"
  /\ UNCHANGED <<cols_in, runVars, normVars>>

NextMerge == MergeStep

SpecMerge == InitMerge /\ [][NextMerge]_vars

\* C4: whatever the merge order, the final table has the union of the columns' row
\* keys, each once, and every cell holds its column's own value at that key, or
\* the missing marker where the column has none.
C4_MergeOrderIndependent ==
  pc = "merged" =>
    LET keys == UNION {SeqToSet(cols_in[k].index) : k \in 1..MaxCols}
    IN /\ SeqToSet(base.index) = keys
       /\ Len(base.index) = Cardinality(keys)
       /\ SeqToSet(base.columns) = {MergeColNames[k] : k \in 1..MaxCols}
       /\ \A k \in 1..MaxCols : \A t \in keys :
            base.data[MergeColNames[k]][t] =
              (IF t \in SeqToSet(cols_in[k].index)
               THEN cols_in[k].data[MergeColNames[k]][t] ELSE NaN)

\* C4 witness: three columns with partially overlapping timestamps merged in an order
\* other than the first.
C4_Witness ==
  /\ pc = "merged"
  /\ merged_ids[1] = 3
  /\ merged_ids[2] = 1
  /\ SeqToSet(cols_in[1].index) \cap SeqToSet(cols_in[3].index) # {}
  /\ SeqToSet(cols_in[1].index) # SeqToSet(cols_in[3].index)
  /\ SeqToSet(cols_in[2].index) # SeqToSet(cols_in[3].index)

----------------------------------------------------------------------------
(* SpecFrac: _ts_matrix_to_series on responses whose raw timestamps have   *)
(* fractional seconds (a query step below one second)                      *)

\* The raw times of the query grid: 1.0, 1.5 and 2.0 seconds.
FracGridTimes == <<RawTs(1, 0), RawTs(1, 5), RawTs(2, 0)>>

FracValues == {RawStr("1"), RawStr("2"), RawStr("NaN")}

RECURSIVE FracSeriesFrom(_)
\* Every series over the fractional grid times from position g on.
FracSeriesFrom(g) ==
  IF g > Len(FracGridTimes) THEN {<<>>}
  ELSE LET rest == FracSeriesFrom(g + 1)
       IN rest \cup {<<Sample(FracGridTimes[g], x)>> \o r : x \in FracValues, r \in rest}

FracSeries == FracSeriesFrom(1)

InitFrac ==
  /\ pc = "start"
  /\ \E n \in 0..MaxSeries : payload \in [1..n -> FracSeries]
  /\ frames = <<>>
  /\ series_df = NoneDF
  /\ RunIdle
  /\ MergeIdle

\* The step is the one call of _ts_matrix_to_series(payload, TargetCol) of NextNorm.
SpecFrac == InitFrac /\ [][NextNorm]_vars

\* The samples of the response, as <<series, position>>, and the whole second and
\* the raw time of a sample.
FracPositions ==
  UNION {{<<i, j>> : j \in DOMAIN payload[i]} : i \in DOMAIN payload}
SecondOf(p) == payload[p[1]][p[2]].t.sec
RawTimeOf(p) == payload[p[1]][p[2]].t

\* No raw timestamp is reported by two series.
DisjointRawTimes ==
  \A p \in FracPositions : \A q \in FracPositions :
    (p[1] # q[1]) => RawTimeOf(p) # RawTimeOf(q)

\* C11 as stated: with disjoint raw timestamp sets the column has one row per raw
\* timestamp and every sample's value is in the column unchanged.
C11_DistinctRawTimesNeverSummed ==
  (pc = "done" /\ DisjointRawTimes) =>
    /\ Len(series_df.index) = Cardinality({RawTimeOf(p) : p \in FracPositions})
    /\ \A p \in FracPositions : series_df.data[TargetCol][SecondOf(p)] = ContribValue(p)

\* C11 amended: the column's timestamps are the raw timestamps truncated to whole
\* seconds, each once; the value at a second is the sum of the numbers of the samples
\* whose raw timestamps fall in that second (missing if there is none), so a sample
\* alone in its second is unchanged and samples of different seconds are never
\* summed together.
C11_SummedWithinEpochSecond ==
  pc = "done" =>
    LET seconds == {SecondOf(p) : p \in FracPositions}
        numbers(T) == {p \in FracPositions : SecondOf(p) = T /\ ~IsNaN(ContribValue(p))}
    IN /\ SeqToSet(series_df.index) = seconds
       /\ Len(series_df.index) = Cardinality(seconds)
       /\ \A T \in seconds :
            series_df.data[TargetCol][T] =
              (IF numbers(T) = {} THEN NaN ELSE SumOfContribs(numbers(T)))
       /\ \A p \in FracPositions :
            (\A q \in FracPositions : SecondOf(q) = SecondOf(p) => q = p) =>
              series_df.data[TargetCol][SecondOf(p)] = ContribValue(p)

\* C11 witness: one series with the samples 1 at 1.0 s and 2 at 1.5 s gave 3 at
\* second 1.
C11_Witness ==
  /\ pc = "done"
  /\ payload = << <<Sample(RawTs(1, 0), RawStr("1")), Sample(RawTs(1, 5), RawStr("2"))>> >>
  /\ series_df.index = <<1>>
  /\ series_df.data[TargetCol][1] = Num(3)

====
